---------------------------- MODULE Spec2Model ----------------------------
(***************************************************************************)
(* Model of the audio resampling / reframing buffer of                     *)
(* src/src/codec/audio/resampler.c (struct AudioResampler and the          *)
(* functions ffw_audio_resampler_new / _push_frame / _take_frame).         *)
(*                                                                         *)
(* The resampling kernel (libswresample) and the frame allocator           *)
(* (libavutil) are external collaborators.  The kernel is modelled by a    *)
(* deterministic stub (a sample-and-hold rate converter, the identity at   *)
(* equal rates) that keeps the pending samples and the pending discard     *)
(* count; every call into it, every allocation and every frame clone may   *)
(* fail, as the library calls may.                                         *)
(***************************************************************************)
EXTENDS Integers, Sequences, FiniteSets, TLC

(* ------------------------------ bounds -------------------------------- *)

\* Number of push() calls the caller makes, not counting the rejected ones
\* (those answered 0, which change nothing).
MaxPush == 2

\* Number of library calls (kernel calls, allocations, clones) that fail.
MaxFaults == 1

\* Numbers of samples in a pushed chunk.
ChunkLengths == {0, 3}

\* Distances of a chunk's pts from the end of the last consumed chunk.
Drifts == {-1, 0, 1}

\* Configurations of the instance: target_frame_samples (0 = passthrough)
\* and <<target_sample_rate, source_sample_rate>>.
FrameSizes == {0, 3}

Rates == {<<1, 1>>, <<1, 2>>}

\* Negative results the kernel calls may report (AVERROR codes).
KernelErrors == {-22}

(* ----------------------------- constants ------------------------------ *)

\* A null pointer (no frame).
NULL == [null |-> TRUE]

\* The frame out-parameter of take() when the call did not assign it.
NoFrame == [unset |-> TRUE]

\* Stand-in for AV_NOPTS_VALUE (INT64_MIN), the pts of a frame that was
\* allocated and never stamped; below every timestamp the model reaches.
NOPTS == 0 - 1000000

\* The silent sample produced by swr_inject_silence.
Silence == 0

Min(a, b) == IF a < b THEN a ELSE b

\* Variant of CDiv that rounds toward minus infinity.
CDivFloor(a, b) == a \div b

\* C integer division of a by a positive b: truncation toward zero.
CDiv(a, b) == IF a >= 0 THEN a \div b ELSE 0 - ((0 - a) \div b)

(* --------------------------- kernel stub ------------------------------ *)
\* State of the stub: buf, the converted samples not yet written out;
\* drop, the number of output samples still to discard; phase, the
\* fractional position of the rate converter (0 .. source_rate - 1).

RECURSIVE Repeat(_, _)
Repeat(x, n) == IF n <= 0 THEN <<>> ELSE <<x>> \o Repeat(x, n - 1)

RECURSIVE SwrResample(_, _, _, _)
\* Convert the input samples in at rate tr/sr, starting from phase: every
\* input sample advances the phase by tr and is written once per wrap.
SwrResample(in, phase, tr, sr) ==
    IF in = <<>> THEN [out |-> <<>>, phase |-> phase]
    ELSE LET n    == (phase + tr) \div sr
             rest == SwrResample(Tail(in), (phase + tr) % sr, tr, sr)
         IN  [out |-> Repeat(Head(in), n) \o rest.out, phase |-> rest.phase]

\* Remove the pending discard from the front of the buffered output.
SwrApplyDrop(k) ==
    LET d == Min(k.drop, Len(k.buf))
    IN  [k EXCEPT !.buf = SubSeq(k.buf, d + 1, Len(k.buf)), !.drop = k.drop - d]

\* swr_inject_silence(ctx, count): count silent input samples are fed in
\* and stay buffered.
SwrInjectSilence(k, count, tr, sr) ==
    LET c == SwrResample(Repeat(Silence, count), k.phase, tr, sr)
    IN  [k EXCEPT !.buf = k.buf \o c.out, !.phase = c.phase]

\* swr_drop_output(ctx, count): count more output samples are to be
\* discarded, starting with what is buffered.
SwrDropOutput(k, count) == SwrApplyDrop([k EXCEPT !.drop = k.drop + count])

\* swr_get_out_samples(ctx, in_samples): upper bound of the samples the next
\* conversion of in_samples input samples writes.
SwrGetOutSamples(k, in_samples, tr, sr) ==
    Len(k.buf) + ((k.phase + in_samples * tr) \div sr)

\* swr_get_delay(ctx, base): the buffered samples at the target rate.
SwrGetDelay(k) == Len(k.buf)

\* swr_convert_frame(ctx, out, in): the kernel state after the conversion
\* and the samples written into an output frame of the given capacity.
SwrConvert(k, in, capacity, tr, sr) ==
    LET c   == SwrResample(in, k.phase, tr, sr)
        k1  == SwrApplyDrop([k EXCEPT !.buf = k.buf \o c.out, !.phase = c.phase])
        n   == Min(Len(k1.buf), capacity)
    IN  [swr |-> [k1 EXCEPT !.buf = SubSeq(k1.buf, n + 1, Len(k1.buf))],
         out |-> SubSeq(k1.buf, 1, n)]

(* ------------------------------ frames -------------------------------- *)

\* A frame of the resampler: nb_samples, pts, data (the nb_samples valid
\* samples of its buffer) and shared (a clone handed to the caller still
\* references the buffer).
\* alloc_frame(..., nb_samples): a fresh frame with its own buffer, no pts
\* and no valid sample yet, referenced by nobody else.  (nb_samples is the
\* capacity asked for; both callers reset the frame's nb_samples to 0
\* before the frame is read.)
alloc_frame(nb_samples) ==
    [nb_samples |-> 0, pts |-> NOPTS, data |-> <<>>, shared |-> FALSE]

\* av_frame_is_writable(frame): no clone handed to the caller still
\* references the frame's buffer.
av_frame_is_writable(f) == ~f.shared

\* av_frame_clone(frame) as the caller receives it: the valid samples and
\* the timestamp.
av_frame_clone(f) ==
    [nb_samples |-> f.nb_samples, pts |-> f.pts, data |-> f.data]

IsFrame(f) == f # NULL /\ f # NoFrame

(* ------------------- ffw_audio_resampler_push_frame ------------------- *)
\* A push yields [r, swr, ret, calls]: the instance and the kernel after
\* the call, the value returned and the library calls made, in order, each
\* [f, arg, res]: the kernel calls with their result, and alloc_frame with
\* res 1 (a frame) or 0 (NULL).  fault = [at, err] names the step that
\* fails in this call, if it is reached: "correct" (inject or drop),
\* "capacity", "alloc", "convert", or "none".

NoFault == [at |-> "none", err |-> 0]

\* Variant of PushBlocked that lets a push through while one sample is
\* still unconsumed (off by one).
PushBlockedOffByOne(r) ==
    r.tmp_frame # NULL /\ r.offset + 1 < r.tmp_frame.nb_samples

\* The internal frame has not been consumed yet.
PushBlocked(r) ==
    r.tmp_frame # NULL /\ r.offset < r.tmp_frame.nb_samples

\* Set the initial pts expectation.
PushInitPts(r, pts) ==
    IF r.source_samples = 0
    THEN [r EXCEPT !.expected_source_pts = pts,
                   !.input_pts_offset = pts,
                   !.output_pts_offset =
                       CDiv(pts * r.target_sample_rate, r.source_sample_rate)]
    ELSE r

PtsDelta(r, pts) == pts - r.expected_source_pts

\* Variant of Correction that counts the silence of a gap at the target
\* rate.
CorrectionGapAtTargetRate(r, pts_delta) ==
    IF pts_delta > 0
    THEN [f |-> "swr_inject_silence",
          arg |-> CDiv(pts_delta * r.target_sample_rate,
                       r.source_sample_rate)]
    ELSE IF pts_delta < 0
    THEN [f |-> "swr_drop_output",
          arg |-> CDiv((0 - pts_delta) * r.target_sample_rate,
                       r.source_sample_rate)]
    ELSE NULL

\* Variant of Correction that counts the samples of an overlap at the
\* source rate.
CorrectionDropAtSourceRate(r, pts_delta) ==
    IF pts_delta > 0
    THEN [f |-> "swr_inject_silence", arg |-> pts_delta]
    ELSE IF pts_delta < 0
    THEN [f |-> "swr_drop_output", arg |-> 0 - pts_delta]
    ELSE NULL

\* The kernel call that corrects a gap or an overlap, NULL without drift.
Correction(r, pts_delta) ==
    IF pts_delta > 0
    THEN [f |-> "swr_inject_silence", arg |-> pts_delta]
    ELSE IF pts_delta < 0
    THEN [f |-> "swr_drop_output",
          arg |-> CDiv((0 - pts_delta) * r.target_sample_rate,
                       r.source_sample_rate)]
    ELSE NULL

\* Variant of TrackSamples that leaves the chunk's length out of the
\* count.
TrackSamplesForgetsLength(r, nb_samples, pts_delta) ==
    LET n == r.source_samples + pts_delta
    IN  [r EXCEPT !.source_samples = n,
                  !.expected_source_pts = r.input_pts_offset + n]

\* Variant of TrackSamples that advances the expectation by the chunk's
\* length instead of recomputing it from the sample count.
TrackSamplesAdvancesExpectation(r, nb_samples, pts_delta) ==
    LET n == r.source_samples + nb_samples + pts_delta
    IN  [r EXCEPT !.source_samples = n,
                  !.expected_source_pts = r.expected_source_pts + nb_samples]

\* The drift tracker's update.
TrackSamples(r, nb_samples, pts_delta) ==
    LET n == r.source_samples + nb_samples + pts_delta
    IN  [r EXCEPT !.source_samples = n,
                  !.expected_source_pts = r.input_pts_offset + n]

\* Variant of NeedAlloc that reuses the staging frame although a clone
\* handed to the caller still references its buffer.
NeedAllocIgnoringClones(r, required_capacity) ==
    \/ r.tmp_frame = NULL
    \/ required_capacity > r.tmp_frame_capacity

\* Variant of NeedAlloc that also replaces a staging frame of exactly the
\* required capacity.
NeedAllocWhenNotLarger(r, required_capacity) ==
    \/ r.tmp_frame = NULL
    \/ ~av_frame_is_writable(r.tmp_frame)
    \/ required_capacity >= r.tmp_frame_capacity

\* Whether the staging frame has to be replaced.
NeedAlloc(r, required_capacity) ==
    \/ r.tmp_frame = NULL
    \/ ~av_frame_is_writable(r.tmp_frame)
    \/ required_capacity > r.tmp_frame_capacity

\* What push returns when the staging frame cannot be allocated.
AllocFailure == 0 - 1

\* Variant of StampOutput that counts the new samples before it stamps the
\* frame.
StampOutputAfterCount(r, out) ==
    [r EXCEPT !.tmp_frame.data = out,
              !.tmp_frame.nb_samples = Len(out),
              !.tmp_frame.pts =
                  r.output_samples + Len(out) + r.output_pts_offset,
              !.output_samples = r.output_samples + Len(out)]

\* The staging frame stamped after a successful conversion.
StampOutput(r, out) ==
    [r EXCEPT !.tmp_frame.data = out,
              !.tmp_frame.nb_samples = Len(out),
              !.tmp_frame.pts = r.output_samples + r.output_pts_offset,
              !.output_samples = r.output_samples + Len(out)]

\* Variant of PushError that reports every kernel failure as -1.
PushErrorGeneric(r, k, ret, calls) ==
    [r |-> r, swr |-> k, ret |-> 0 - 1, calls |-> calls]

\* return ret: a negative result of a kernel call ends the push and is what
\* the push returns.
PushError(r, k, ret, calls) ==
    [r |-> r, swr |-> k, ret |-> ret, calls |-> calls]

\* The capacity check, the (re)allocation of the staging frame and the
\* conversion; in is the input samples (none on a flush), in_arg what the
\* call log records for the input.
PushConvert(r, k, in, in_arg, required_capacity, calls, fault) ==
    IF required_capacity < 0
    THEN PushError(r, k, required_capacity, calls)
    ELSE IF NeedAlloc(r, required_capacity) /\ fault.at = "alloc"
    THEN [r |-> [r EXCEPT !.tmp_frame = NULL], swr |-> k,
          ret |-> AllocFailure,
          calls |-> Append(calls, [f |-> "alloc_frame",
                                   arg |-> required_capacity, res |-> 0])]
    ELSE
      LET r1 == IF NeedAlloc(r, required_capacity)
                THEN [r EXCEPT !.tmp_frame = alloc_frame(required_capacity),
                               !.tmp_frame_capacity = required_capacity]
                ELSE r
          r2 == [r1 EXCEPT !.tmp_frame.nb_samples = 0,
                           !.tmp_frame.data = <<>>,
                           !.offset = 0]
          calls1 == IF NeedAlloc(r, required_capacity)
                    THEN Append(calls, [f |-> "alloc_frame",
                                        arg |-> required_capacity, res |-> 1])
                    ELSE calls
          cv == SwrConvert(k, in, r2.tmp_frame_capacity,
                           r.target_sample_rate, r.source_sample_rate)
      IN  IF fault.at = "convert"
          THEN PushError(r2, k, fault.err,
                         Append(calls1, [f |-> "swr_convert_frame",
                                         arg |-> in_arg, res |-> fault.err]))
          ELSE [r |-> StampOutput(r2, cv.out), swr |-> cv.swr, ret |-> 1,
                calls |-> Append(calls1, [f |-> "swr_convert_frame",
                                          arg |-> in_arg, res |-> 0])]

\* Variant of PushChunk that updates the drift tracker before the
\* correction is made, so that a failed correction leaves it advanced.
PushChunkTrackFirst(r, k, frame, fault) ==
    LET r1        == PushInitPts(r, frame.pts)
        pts_delta == PtsDelta(r1, frame.pts)
        c         == Correction(r1, pts_delta)
        cres      == IF fault.at = "correct" THEN fault.err ELSE 0
        ccalls    == IF c = NULL THEN <<>>
                     ELSE <<[f |-> c.f, arg |-> c.arg, res |-> cres]>>
        r2        == TrackSamples(r1, frame.nb_samples, pts_delta)
    IN  IF c # NULL /\ cres < 0
        THEN PushError(r2, k, cres, ccalls)
        ELSE
          LET k1 == IF c = NULL THEN k
                    ELSE IF c.f = "swr_inject_silence"
                    THEN SwrInjectSilence(k, c.arg, r.target_sample_rate,
                                          r.source_sample_rate)
                    ELSE SwrDropOutput(k, c.arg)
              required_capacity ==
                  IF fault.at = "capacity" THEN fault.err
                  ELSE SwrGetOutSamples(k1, frame.nb_samples,
                                        r.target_sample_rate,
                                        r.source_sample_rate)
          IN  PushConvert(r2, k1, frame.data, frame.nb_samples,
                          required_capacity,
                          Append(ccalls, [f |-> "swr_get_out_samples",
                                          arg |-> frame.nb_samples,
                                          res |-> required_capacity]),
                          fault)

\* Variant of PushChunk that goes on to the capacity query and the
\* conversion when the drift correction failed.
PushChunkIgnoresCorrectionFailure(r, k, frame, fault) ==
    LET r1        == PushInitPts(r, frame.pts)
        pts_delta == PtsDelta(r1, frame.pts)
        c         == Correction(r1, pts_delta)
        cres      == IF fault.at = "correct" THEN fault.err ELSE 0
        ccalls    == IF c = NULL THEN <<>>
                     ELSE <<[f |-> c.f, arg |-> c.arg, res |-> cres]>>
        k1 == IF c = NULL \/ cres < 0 THEN k
              ELSE IF c.f = "swr_inject_silence"
              THEN SwrInjectSilence(k, c.arg, r.target_sample_rate,
                                    r.source_sample_rate)
              ELSE SwrDropOutput(k, c.arg)
        r2 == TrackSamples(r1, frame.nb_samples, pts_delta)
        required_capacity ==
            IF fault.at = "capacity" THEN fault.err
            ELSE SwrGetOutSamples(k1, frame.nb_samples,
                                  r.target_sample_rate,
                                  r.source_sample_rate)
    IN  PushConvert(r2, k1, frame.data, frame.nb_samples,
                    required_capacity,
                    Append(ccalls, [f |-> "swr_get_out_samples",
                                    arg |-> frame.nb_samples,
                                    res |-> required_capacity]),
                    fault)

\* push of a real chunk frame = [pts, nb_samples, data].
PushChunk(r, k, frame, fault) ==
    LET r1        == PushInitPts(r, frame.pts)
        pts_delta == PtsDelta(r1, frame.pts)
        c         == Correction(r1, pts_delta)
        cres      == IF fault.at = "correct" THEN fault.err ELSE 0
        ccalls    == IF c = NULL THEN <<>>
                     ELSE <<[f |-> c.f, arg |-> c.arg, res |-> cres]>>
    IN  IF c # NULL /\ cres < 0
        THEN PushError(r1, k, cres, ccalls)
        ELSE
          LET k1 == IF c = NULL THEN k
                    ELSE IF c.f = "swr_inject_silence"
                    THEN SwrInjectSilence(k, c.arg, r.target_sample_rate,
                                          r.source_sample_rate)
                    ELSE SwrDropOutput(k, c.arg)
              r2 == TrackSamples(r1, frame.nb_samples, pts_delta)
              required_capacity ==
                  IF fault.at = "capacity" THEN fault.err
                  ELSE SwrGetOutSamples(k1, frame.nb_samples,
                                        r.target_sample_rate,
                                        r.source_sample_rate)
          IN  PushConvert(r2, k1, frame.data, frame.nb_samples,
                          required_capacity,
                          Append(ccalls, [f |-> "swr_get_out_samples",
                                          arg |-> frame.nb_samples,
                                          res |-> required_capacity]),
                          fault)

\* Variant of PushFlush that asks for the delay alone, with no margin.
PushFlushWithoutMargin(r, k, fault) ==
    LET r1 == [r EXCEPT !.flush = 1]
        required_capacity == SwrGetDelay(k)
    IN  PushConvert(r1, k, <<>>, 0 - 1, required_capacity,
                    <<[f |-> "swr_get_delay", arg |-> r.target_sample_rate,
                       res |-> SwrGetDelay(k)]>>,
                    fault)

\* push of the flush sentinel (frame == NULL).
PushFlush(r, k, fault) ==
    LET r1 == [r EXCEPT !.flush = 1]
        required_capacity == SwrGetDelay(k) + 3
    IN  PushConvert(r1, k, <<>>, 0 - 1, required_capacity,
                    <<[f |-> "swr_get_delay", arg |-> r.target_sample_rate,
                       res |-> SwrGetDelay(k)]>>,
                    fault)

PushFrame(r, k, frame, fault) ==
    IF PushBlocked(r)
    THEN [r |-> r, swr |-> k, ret |-> 0, calls |-> <<>>]
    ELSE IF frame # NULL
    THEN PushChunk(r, k, frame, fault)
    ELSE PushFlush(r, k, fault)

(* ------------------- ffw_audio_resampler_take_frame ------------------- *)
\* A take yields [r, ret, frame]: the instance after the call, the value
\* returned and what the call stored in the frame out-parameter (NoFrame
\* when it stored nothing, NULL when av_frame_clone failed).  fault names
\* the library call that fails in this call, if it is reached: "alloc",
\* "clone", or "none".

\* Variant of TakeNoStaging that treats the missing staging frame as an
\* error.
TakeNoStagingFails(r) == [r |-> r, ret |-> 0 - 1, frame |-> NoFrame]

\* Sanity check: no staging frame yet.
TakeNoStaging(r) == [r |-> r, ret |-> 0, frame |-> NoFrame]

\* Non-fixed target frame size: clone the staging frame.
TakePassthrough(r, fault) ==
    LET r1 == [r EXCEPT !.flush = 0]
    IN  IF r.tmp_frame.nb_samples > 0
        THEN [r |-> [r1 EXCEPT !.tmp_frame.nb_samples = 0,
                               !.tmp_frame.data = <<>>,
                               !.tmp_frame.shared =
                                   r.tmp_frame.shared \/ fault # "clone"],
              ret |-> 1,
              frame |-> IF fault = "clone" THEN NULL
                        ELSE av_frame_clone(r.tmp_frame)]
        ELSE [r |-> r1, ret |-> 0, frame |-> NoFrame]

\* Variant of NeedOutputAlloc that replaces the output frame in every
\* take, partially filled or not.
NeedOutputAllocAlways(r) ==
    r.output_frame = NULL \/ r.output_frame.nb_samples >= 0

\* Whether the output frame has to be replaced.
NeedOutputAlloc(r) ==
    r.output_frame = NULL \/ ~av_frame_is_writable(r.output_frame)

\* Variant of CopySamples that advances offset by the samples the output
\* frame still needs, copied or not.
CopySamplesAdvancesByRequired(r) ==
    LET required_samples  == r.target_frame_samples - r.output_frame.nb_samples
        available_samples == r.tmp_frame.nb_samples - r.offset
        copy_samples      == IF available_samples > required_samples
                             THEN required_samples ELSE available_samples
    IN  IF copy_samples > 0
        THEN [r EXCEPT
                !.output_frame.data =
                    r.output_frame.data
                    \o SubSeq(r.tmp_frame.data, r.offset + 1,
                              r.offset + copy_samples),
                !.output_frame.pts =
                    IF r.output_frame.nb_samples = 0
                    THEN r.tmp_frame.pts + r.offset
                    ELSE r.output_frame.pts,
                !.offset = r.offset + required_samples,
                !.output_frame.nb_samples =
                    r.output_frame.nb_samples + copy_samples]
        ELSE r

\* Variant of CopySamples that stamps an empty output frame with the pts of
\* the staging frame, whatever the offset.
CopySamplesStampsChunkStart(r) ==
    LET required_samples  == r.target_frame_samples - r.output_frame.nb_samples
        available_samples == r.tmp_frame.nb_samples - r.offset
        copy_samples      == IF available_samples > required_samples
                             THEN required_samples ELSE available_samples
    IN  IF copy_samples > 0
        THEN [r EXCEPT
                !.output_frame.data =
                    r.output_frame.data
                    \o SubSeq(r.tmp_frame.data, r.offset + 1,
                              r.offset + copy_samples),
                !.output_frame.pts =
                    IF r.output_frame.nb_samples = 0
                    THEN r.tmp_frame.pts
                    ELSE r.output_frame.pts,
                !.offset = r.offset + copy_samples,
                !.output_frame.nb_samples =
                    r.output_frame.nb_samples + copy_samples]
        ELSE r

\* Copy the samples that fit from the staging frame to the output frame.
CopySamples(r) ==
    LET required_samples  == r.target_frame_samples - r.output_frame.nb_samples
        available_samples == r.tmp_frame.nb_samples - r.offset
        copy_samples      == IF available_samples > required_samples
                             THEN required_samples ELSE available_samples
    IN  IF copy_samples > 0
        THEN [r EXCEPT
                !.output_frame.data =
                    r.output_frame.data
                    \o SubSeq(r.tmp_frame.data, r.offset + 1,
                              r.offset + copy_samples),
                !.output_frame.pts =
                    IF r.output_frame.nb_samples = 0
                    THEN r.tmp_frame.pts + r.offset
                    ELSE r.output_frame.pts,
                !.offset = r.offset + copy_samples,
                !.output_frame.nb_samples =
                    r.output_frame.nb_samples + copy_samples]
        ELSE r

\* The output frame is not handed out yet: no flush and not a full frame.
WaitForMore(r) ==
    r.flush = 0 /\ r.output_frame.nb_samples < r.target_frame_samples

\* Variant of ResetFlush that leaves the flush flag set.
ResetFlushNever(r) == r

\* Variant of ResetFlush that resets the flag only once offset is past the
\* end of the staging frame.
ResetFlushPastEnd(r) ==
    IF r.offset > r.tmp_frame.nb_samples THEN [r EXCEPT !.flush = 0] ELSE r

\* Reset the flush flag once the staging frame is used up.
ResetFlush(r) ==
    IF r.offset >= r.tmp_frame.nb_samples THEN [r EXCEPT !.flush = 0] ELSE r

\* Variant of HandOut that does not reset the length of the output frame.
HandOutKeepsLength(r, fault) ==
    [r |-> ResetFlush([r EXCEPT !.output_frame.shared =
                                    r.output_frame.shared \/ fault # "clone"]),
     ret |-> 1,
     frame |-> IF fault = "clone" THEN NULL
               ELSE av_frame_clone(r.output_frame)]

\* Variant of HandOut that counts the samples handed out in
\* output_samples.
HandOutCountsSamples(r, fault) ==
    [r |-> ResetFlush([r EXCEPT !.output_frame.nb_samples = 0,
                                !.output_frame.data = <<>>,
                                !.output_frame.shared =
                                    r.output_frame.shared \/ fault # "clone",
                                !.output_samples =
                                    r.output_samples
                                    + r.output_frame.nb_samples]),
     ret |-> 1,
     frame |-> IF fault = "clone" THEN NULL
               ELSE av_frame_clone(r.output_frame)]

\* Hand out a clone of the output frame and reuse the output frame.
HandOut(r, fault) ==
    [r |-> ResetFlush([r EXCEPT !.output_frame.nb_samples = 0,
                                !.output_frame.data = <<>>,
                                !.output_frame.shared =
                                    r.output_frame.shared \/ fault # "clone"]),
     ret |-> 1,
     frame |-> IF fault = "clone" THEN NULL
               ELSE av_frame_clone(r.output_frame)]

\* Variant of TakeFixed that decides whether to wait for more input
\* before it copies the staged samples.
TakeFixedWaitFirst(r, fault) ==
    IF NeedOutputAlloc(r) /\ fault = "alloc"
    THEN [r |-> [r EXCEPT !.output_frame = NULL], ret |-> 0 - 1,
          frame |-> NoFrame]
    ELSE
      LET r1 == IF NeedOutputAlloc(r)
                THEN [r EXCEPT !.output_frame =
                                   alloc_frame(r.target_frame_samples)]
                ELSE r
      IN  IF WaitForMore(r1)
          THEN [r |-> r1, ret |-> 0, frame |-> NoFrame]
          ELSE HandOut(CopySamples(r1), fault)

\* Fixed target frame size.
TakeFixed(r, fault) ==
    IF NeedOutputAlloc(r) /\ fault = "alloc"
    THEN [r |-> [r EXCEPT !.output_frame = NULL], ret |-> 0 - 1,
          frame |-> NoFrame]
    ELSE
      LET r1 == IF NeedOutputAlloc(r)
                THEN [r EXCEPT !.output_frame =
                                   alloc_frame(r.target_frame_samples)]
                ELSE r
          r2 == CopySamples(r1)
      IN  IF WaitForMore(r2)
          THEN [r |-> r2, ret |-> 0, frame |-> NoFrame]
          ELSE HandOut(r2, fault)

TakeFrame(r, fault) ==
    IF r.tmp_frame = NULL THEN TakeNoStaging(r)
    ELSE IF r.target_frame_samples = 0 THEN TakePassthrough(r, fault)
    ELSE TakeFixed(r, fault)

(* ------------------------ frames the caller holds --------------------- *)
\* The caller's side of the frames it was handed: for the staging frame
\* (tmp) and for the output frame (out), the set of clones the caller
\* holds, each [frame, data, attached]: the clone as it was handed out,
\* the samples the caller reads through it now, and whether its buffer is
\* still the buffer of the instance's frame.  A clone shares the buffer of
\* the frame it was cloned from, so what the instance writes into that
\* buffer is what the caller reads.

\* The buffer content old after new was written at sample position at.
Overlay(old, at, new) ==
    [i \in 1..Len(old) |->
        IF i > at /\ i <= at + Len(new) THEN new[i - at] ELSE old[i]]

\* The instance writes new at position at of the buffer it holds.
WriteThrough(hs, at, new) ==
    { IF h.attached THEN [h EXCEPT !.data = Overlay(h.data, at, new)] ELSE h :
      h \in hs }

\* The instance drops its frame (av_frame_free): the clones keep the buffer.
Detach(hs) == { [h EXCEPT !.attached = FALSE] : h \in hs }

Handed(f) == [frame |-> f, data |-> f.data, attached |-> TRUE]

\* The clones of the staging frame after a push with result p: the frame
\* was replaced, or the conversion wrote into it.
HeldAfterPush(hs, p) ==
    IF \E i \in DOMAIN p.calls : p.calls[i].f = "alloc_frame"
    THEN Detach(hs)
    ELSE IF p.ret = 1
    THEN WriteThrough(hs, 0, p.r.tmp_frame.data)
    ELSE hs

\* The held clones after a take with result t from instance r.
HeldAfterTake(h, r, t) ==
    IF r.tmp_frame = NULL THEN h
    ELSE IF r.target_frame_samples = 0
    THEN IF IsFrame(t.frame)
         THEN [h EXCEPT !.tmp = @ \cup {Handed(t.frame)}]
         ELSE h
    ELSE
      LET copied == SubSeq(r.tmp_frame.data, r.offset + 1, t.r.offset)
          h1 == IF NeedOutputAlloc(r) THEN Detach(h.out)
                ELSE WriteThrough(h.out, r.output_frame.nb_samples, copied)
      IN  [h EXCEPT !.out = IF IsFrame(t.frame)
                            THEN h1 \cup {Handed(t.frame)}
                            ELSE h1]

(* ------------------------ what the instance owns ---------------------- *)
\* What the instance owns: self, the AudioResampler structure; ctx, the
\* resample context; tmp and out, the references to the staging frame and
\* to the output frame (a frame handed out is a reference of the caller's,
\* not counted here).  peak is the largest number of staging references, or
\* of output references, that were live at the same time during the last
\* call; freed is what the last ffw_audio_resampler_free released.
Owned(self, ctx) ==
    [self |-> self, ctx |-> ctx, tmp |-> 0, out |-> 0, peak |-> 0,
     freed |-> 0]

Max(a, b) == IF a > b THEN a ELSE b

\* Variant of ReplaceFrame that does not free the frame it replaces.
ReplaceFrameWithoutFree(live, ok) ==
    LET after_alloc == live + (IF ok THEN 1 ELSE 0)
    IN  [live |-> after_alloc, peak |-> after_alloc]

\* av_frame_free(&f); f = alloc_frame(...): the reference held, if any, is
\* released, then one is taken if the allocation succeeds.  live is the
\* number of references held before.
ReplaceFrame(live, ok) ==
    LET after_free  == live - Min(live, 1)
        after_alloc == after_free + (IF ok THEN 1 ELSE 0)
    IN  [live |-> after_alloc, peak |-> Max(live, after_alloc)]

\* Ownership after a push with result p.
OwnedAfterPush(o, p) ==
    IF \E i \in DOMAIN p.calls : p.calls[i].f = "alloc_frame"
    THEN LET rep == ReplaceFrame(o.tmp,
                        \E i \in DOMAIN p.calls :
                            p.calls[i].f = "alloc_frame"
                            /\ p.calls[i].res = 1)
         IN  [o EXCEPT !.tmp = rep.live, !.peak = Max(rep.peak, o.out)]
    ELSE [o EXCEPT !.peak = Max(o.tmp, o.out)]

\* Ownership after a take with result t from instance r.
OwnedAfterTake(o, r, t) ==
    IF /\ r.tmp_frame # NULL
       /\ r.target_frame_samples > 0
       /\ NeedOutputAlloc(r)
    THEN LET rep == ReplaceFrame(o.out, t.ret >= 0)
         IN  [o EXCEPT !.out = rep.live, !.peak = Max(rep.peak, o.tmp)]
    ELSE [o EXCEPT !.peak = Max(o.tmp, o.out)]

\* ffw_audio_resampler_free(resampler): nothing to do for NULL; else each
\* of the two frame pointers and the context pointer gives up the one
\* reference it holds, and the structure is freed.
ffw_audio_resampler_free(o) ==
    IF o.self = 0 THEN [o EXCEPT !.freed = 0]
    ELSE [self  |-> 0,
          ctx   |-> o.ctx - Min(o.ctx, 1),
          tmp   |-> o.tmp - Min(o.tmp, 1),
          out   |-> o.out - Min(o.out, 1),
          peak  |-> Max(o.tmp, o.out),
          freed |-> 1 + Min(o.ctx, 1) + Min(o.tmp, 1) + Min(o.out, 1)]

\* The steps of ffw_audio_resampler_new that can fail.
NewFaults == {"none", "malloc", "swr_alloc_set_opts", "swr_init"}

\* What ffw_audio_resampler_new leaves owned: nothing when malloc fails;
\* when the context cannot be allocated or initialised, what
\* ffw_audio_resampler_free leaves of the structure built so far.
OwnedAfterNew(fault) ==
    IF fault = "malloc" THEN Owned(0, 0)
    ELSE IF fault = "swr_alloc_set_opts"
    THEN ffw_audio_resampler_free(Owned(1, 0))
    ELSE IF fault = "swr_init"
    THEN ffw_audio_resampler_free(Owned(1, 1))
    ELSE Owned(1, 1)

(* ------------------------------- state -------------------------------- *)

VARIABLES
    resampler,     \* the AudioResampler instance (its fields)
    swr,           \* the kernel behind resample_context
    op,            \* the last call: "new", "new_failed" (the constructor
                   \* returned NULL), "push", "take", "release" or "free";
                   \* "peer_push" or "peer_take" for the second instance
    ret,           \* the value the last push or take returned
    pushed,        \* the frame argument of the last push (NULL: flush)
    calls,         \* the library calls the last push made
    frame,         \* what the last take stored in its out-parameter
    npush,         \* number of push calls made and not rejected
    nfault,        \* number of library calls that failed
    kfail,         \* a kernel call has reported an error
    next_pts,      \* caller: pts right after the last consumed chunk
    next_sample,   \* caller: the next fresh input sample
    in_data,       \* the samples of all consumed chunks, in order
    out_data,      \* the samples of all frames handed out, in order
    last_out,      \* pts and nb_samples of the frame handed out last
    contiguous,    \* every chunk pushed so far had pts = next_pts
    ever_flushed,  \* a flush has been pushed (and not rejected)
    held,          \* caller: the frames it holds ([tmp, out])
    first_chunk,   \* [pts] of the first chunk push not rejected, or NULL
    last_consumed, \* what the last push that returned 1 pushed: "chunk",
                   \* "flush", or "none" before any
    drain,         \* "idle", "flushing" (flush pushed, output pending)
                   \* or "drained" (take has since reported no output)
    written,       \* the samples written by the successful conversions,
                   \* in order
    owned,         \* what the instance owns
    peer,          \* a second instance: [r, k, ret, frame, npush], its
                   \* fields, its kernel, the result of its last call and
                   \* the pushes made to it
    alone          \* the second instance as it is when it is given the
                   \* same calls with no other instance around

vars == <<resampler, swr, op, ret, pushed, calls, frame, npush, nfault, kfail,
          next_pts,
          next_sample, in_data, out_data, last_out, contiguous,
          ever_flushed, held, first_chunk, last_consumed, drain,
          written, owned, peer, alone>>

\* ffw_audio_resampler_new with the given configuration.
ffw_audio_resampler_new(target_frame_samples, rates) ==
    [tmp_frame |-> NULL, output_frame |-> NULL,
     target_sample_rate |-> rates[1],
     target_frame_samples |-> target_frame_samples,
     source_sample_rate |-> rates[2],
     tmp_frame_capacity |-> 0,
     source_samples |-> 0, expected_source_pts |-> 0, output_samples |-> 0,
     input_pts_offset |-> 0, output_pts_offset |-> 0,
     offset |-> 0, flush |-> 0]

\* The second instance after construction: fixed-size mode, equal rates.
PeerNew ==
    [r |-> ffw_audio_resampler_new(3, <<1, 1>>),
     k |-> [buf |-> <<>>, drop |-> 0, phase |-> 0],
     ret |-> 0, frame |-> NoFrame, npush |-> 0]

Init ==
    /\ \E F \in FrameSizes, rates \in Rates :
           resampler = ffw_audio_resampler_new(F, rates)
    /\ \E fault \in NewFaults :
           /\ owned = OwnedAfterNew(fault)
           /\ op = IF fault = "none" THEN "new" ELSE "new_failed"
    /\ swr = [buf |-> <<>>, drop |-> 0, phase |-> 0]
    /\ ret = 0
    /\ pushed = NoFrame
    /\ calls = <<>>
    /\ frame = NoFrame
    /\ npush = 0
    /\ nfault = 0
    /\ kfail = FALSE
    /\ next_pts = 0
    /\ next_sample = 1
    /\ in_data = <<>>
    /\ out_data = <<>>
    /\ last_out = NoFrame
    /\ contiguous = TRUE
    /\ ever_flushed = FALSE
    /\ held = [tmp |-> {}, out |-> {}]
    /\ first_chunk = NULL
    /\ last_consumed = "none"
    /\ drain = "idle"
    /\ written = <<>>
    /\ peer = PeerNew
    /\ alone = PeerNew

\* The chunks the caller may push next: fresh samples, a pts near the end
\* of the last consumed chunk.
Chunks ==
    { [pts |-> next_pts + d, nb_samples |-> n,
       data |-> [i \in 1..n |-> next_sample + i - 1]] :
      d \in Drifts, n \in ChunkLengths }

PushFaults ==
    {NoFault} \cup
    { [at |-> a, err |-> e] :
      a \in {"correct", "capacity", "convert"}, e \in KernelErrors } \cup
    { [at |-> "alloc", err |-> 0] }

TakeFaults == {"none", "alloc", "clone"}

\* The caller calls ffw_audio_resampler_push_frame(resampler, f).
PushWith(f, fault) ==
    LET p == PushFrame(resampler, swr, f, fault)
        consumed == p.ret = 1 /\ f # NULL
    IN  /\ owned.self = 1
        /\ npush + peer.npush < MaxPush
        /\ fault = NoFault \/ nfault < MaxFaults
        /\ owned' = OwnedAfterPush(owned, p)
        /\ nfault' = IF p.ret < 0 THEN nfault + 1 ELSE nfault
        /\ kfail' = (kfail \/ \E i \in DOMAIN p.calls : p.calls[i].res < 0)
        /\ resampler' = p.r
        /\ swr' = p.swr
        /\ op' = "push"
        /\ ret' = p.ret
        /\ pushed' = IF f = NULL THEN NULL
                     ELSE [pts |-> f.pts, nb_samples |-> f.nb_samples]
        /\ calls' = p.calls
        /\ frame' = NoFrame
        /\ npush' = IF PushBlocked(resampler) THEN npush ELSE npush + 1
        /\ next_pts' = IF consumed THEN f.pts + f.nb_samples ELSE next_pts
        /\ next_sample' = IF consumed THEN next_sample + f.nb_samples
                          ELSE next_sample
        /\ in_data' = IF consumed THEN in_data \o f.data ELSE in_data
        /\ contiguous' = (contiguous /\
                           (f = NULL \/ p.ret = 0 \/ f.pts = next_pts))
        /\ ever_flushed' = (ever_flushed \/ (f = NULL /\ p.ret # 0))
        /\ held' = [held EXCEPT !.tmp = HeldAfterPush(@, p)]
        /\ first_chunk' = IF /\ first_chunk = NULL
                             /\ f # NULL
                             /\ ~PushBlocked(resampler)
                          THEN [pts |-> f.pts]
                          ELSE first_chunk
        /\ last_consumed' = IF p.ret # 1 THEN last_consumed
                            ELSE IF f = NULL THEN "flush" ELSE "chunk"
        /\ drain' = IF p.ret = 0 /\ p.calls = <<>> /\ PushBlocked(resampler)
                    THEN drain
                    ELSE IF f = NULL THEN "flushing" ELSE "idle"
        /\ written' = IF p.ret = 1 THEN written \o p.r.tmp_frame.data
                       ELSE written
        /\ UNCHANGED <<out_data, last_out, peer, alone>>

PushChunkCall == \E f \in Chunks, fault \in PushFaults : PushWith(f, fault)

PushFlushCall == \E fault \in PushFaults : PushWith(NULL, fault)

\* The caller calls ffw_audio_resampler_take_frame(resampler, &frame).
TakeWith(fault) ==
    LET t == TakeFrame(resampler, fault)
    IN  /\ owned.self = 1
        /\ fault = "none" \/ nfault < MaxFaults
        /\ owned' = OwnedAfterTake(owned, resampler, t)
        /\ nfault' = IF t.ret < 0 \/ t.frame = NULL THEN nfault + 1
                      ELSE nfault
        /\ resampler' = t.r
        /\ op' = "take"
        /\ ret' = t.ret
        /\ pushed' = NoFrame
        /\ calls' = <<>>
        /\ frame' = t.frame
        /\ out_data' = IF IsFrame(t.frame) THEN out_data \o t.frame.data
                       ELSE out_data
        /\ last_out' = IF IsFrame(t.frame)
                       THEN [pts |-> t.frame.pts,
                             nb_samples |-> t.frame.nb_samples]
                       ELSE last_out
        /\ drain' = IF drain = "flushing" /\ t.ret = 0 THEN "drained"
                    ELSE drain
        /\ held' = HeldAfterTake(held, resampler, t)
        /\ UNCHANGED <<swr, npush, kfail, next_pts, next_sample, in_data,
                       contiguous, ever_flushed, first_chunk, last_consumed,
                       written, peer, alone>>

TakeCall == \E fault \in TakeFaults : TakeWith(fault)

\* A take in which every library call succeeds.
TakeOk == TakeWith("none")

\* The caller frees the frame it holds that shares the buffer of the
\* staging frame ("tmp") or of the output frame ("out").
Release(which) ==
    /\ owned.self = 1
    /\ IF which = "tmp"
       THEN /\ resampler.tmp_frame # NULL
            /\ resampler.tmp_frame.shared
            /\ resampler' = [resampler EXCEPT !.tmp_frame.shared = FALSE]
       ELSE /\ resampler.output_frame # NULL
            /\ resampler.output_frame.shared
            /\ resampler' = [resampler EXCEPT !.output_frame.shared = FALSE]
    /\ held' = [held EXCEPT ![which] = {}]
    /\ op' = "release"
    /\ UNCHANGED <<swr, ret, pushed, calls, frame, npush, nfault, kfail,
                   next_pts,
                   next_sample, in_data, out_data, last_out, contiguous,
                   ever_flushed, first_chunk, last_consumed, drain,
                   written, owned, peer, alone>>

ReleaseCall == \E which \in {"tmp", "out"} : Release(which)

\* The caller calls ffw_audio_resampler_free(resampler).  The instance is
\* gone and none of its fields can be read any more: the model ends in a
\* state that keeps the configuration and what is still owned, and nothing
\* of the history.
FreeCall ==
    /\ owned.self = 1
    /\ owned' = ffw_audio_resampler_free(owned)
    /\ resampler' = ffw_audio_resampler_new(
                        resampler.target_frame_samples,
                        <<resampler.target_sample_rate,
                          resampler.source_sample_rate>>)
    /\ swr' = [buf |-> <<>>, drop |-> 0, phase |-> 0]
    /\ op' = "free"
    /\ ret' = 0
    /\ pushed' = NoFrame
    /\ calls' = <<>>
    /\ frame' = NoFrame
    /\ npush' = 0
    /\ nfault' = 0
    /\ kfail' = FALSE
    /\ next_pts' = 0
    /\ next_sample' = 1
    /\ in_data' = <<>>
    /\ out_data' = <<>>
    /\ last_out' = NoFrame
    /\ contiguous' = TRUE
    /\ ever_flushed' = FALSE
    /\ held' = [tmp |-> {}, out |-> {}]
    /\ first_chunk' = NULL
    /\ last_consumed' = "none"
    /\ drain' = "idle"
    /\ written' = <<>>
    /\ UNCHANGED <<peer, alone>>

Next ==
    PushChunkCall \/ PushFlushCall \/ TakeCall \/ ReleaseCall \/ FreeCall

Spec == Init /\ [][Next]_vars

\* The caller keeps calling take, and allocation does not fail forever.
FairSpec == Spec /\ WF_vars(TakeOk)

(* --------------------------- two instances ---------------------------- *)
\* Variant of Resampler in which offset is one variable shared by all
\* instances (a static), not a field of each.
ResamplerStaticOffset(i) ==
    IF i = 1 THEN [r |-> resampler, k |-> swr]
    ELSE [r |-> [peer.r EXCEPT !.offset = resampler.offset], k |-> peer.k]

\* What a call reads through its resampler argument: the fields of the
\* instance it is given and that instance's resample context.  1 is the
\* first instance, 2 the second.
Resampler(i) ==
    IF i = 1 THEN [r |-> resampler, k |-> swr]
    ELSE [r |-> peer.r, k |-> peer.k]

\* The chunks pushed to the second instance: samples of its own, a pts near
\* its expectation.
PeerChunks ==
    { [pts |-> peer.r.expected_source_pts + d, nb_samples |-> n,
       data |-> [i \in 1..n |-> 100 + i]] :
      d \in Drifts, n \in ChunkLengths }

\* The record of the second instance after a push with result p.
AfterPeerPush(old, p) ==
    [r |-> p.r, k |-> p.swr, ret |-> p.ret, frame |-> NoFrame,
     npush |-> old.npush + 1]

\* The record of the second instance after a take with result t.
AfterPeerTake(old, t) ==
    [r |-> t.r, k |-> old.k, ret |-> t.ret, frame |-> t.frame,
     npush |-> old.npush]

\* Everything of the model but the second instance.
first_vars ==
    <<resampler, swr, ret, pushed, calls, frame, npush, nfault, kfail,
      next_pts, next_sample, in_data, out_data, last_out, contiguous,
      ever_flushed, held, first_chunk, last_consumed, drain, written, owned>>

\* The caller calls ffw_audio_resampler_push_frame(second instance, f).
PeerPush(f) ==
    /\ npush + peer.npush < MaxPush
    /\ peer' = AfterPeerPush(peer, PushFrame(Resampler(2).r, Resampler(2).k,
                                             f, NoFault))
    /\ alone' = AfterPeerPush(alone, PushFrame(alone.r, alone.k, f, NoFault))
    /\ op' = "peer_push"
    /\ UNCHANGED first_vars

PeerPushCall == \E f \in PeerChunks \cup {NULL} : PeerPush(f)

\* The caller calls ffw_audio_resampler_take_frame(second instance, &frame).
PeerTakeCall ==
    /\ peer' = AfterPeerTake(peer, TakeFrame(Resampler(2).r, "none"))
    /\ alone' = AfterPeerTake(alone, TakeFrame(alone.r, "none"))
    /\ op' = "peer_take"
    /\ UNCHANGED first_vars

NextTwo == Next \/ PeerPushCall \/ PeerTakeCall

\* Two instances, driven in any interleaving.
SpecTwo == Init /\ [][NextTwo]_vars

(* ------------------------------ claims -------------------------------- *)

\* The staging frame exists and has not been consumed (stated on the
\* instance's fields).
Unconsumed ==
    /\ resampler.tmp_frame # NULL
    /\ resampler.offset < resampler.tmp_frame.nb_samples

KernelCalls ==
    {"swr_inject_silence", "swr_drop_output", "swr_get_out_samples",
     "swr_get_delay", "swr_convert_frame"}

\* C1 - Flush drains exactly once: once the flush sentinel has been pushed
\* (drain = "flushing"), repeated takes lead to a take that reports no
\* output yet, unless another push is made first; and from that take on
\* (drain = "drained"), as long as no push is made, every take returns 0
\* and stores no frame.  Passthrough and fixed-size mode.
C1_FlushDrainsOnce ==
    /\ [][ (drain = "drained" /\ op' = "take")
            => (ret' = 0 /\ frame' = NoFrame) ]_vars
    /\ (drain = "flushing") ~> (drain # "flushing")

\* Witness of C1: in fixed-size mode a flush has been drained through a
\* final partial frame, and take has since reported no output yet.
C1_Witness ==
    /\ drain = "drained" /\ op = "take" /\ ret = 0
    /\ resampler.target_frame_samples > 0
    /\ last_out # NoFrame
    /\ last_out.nb_samples > 0
    /\ last_out.nb_samples < resampler.target_frame_samples

\* C5 - No-input idempotence: as long as no push has been made (there is
\* no staging buffer), every take returns 0 (no output yet), stores no
\* frame and leaves the instance and the kernel as they were.
C5_NoInputIdempotence ==
    [][ (npush = 0 /\ op' = "take")
        => /\ ret' = 0
           /\ frame' = NoFrame
           /\ resampler' = resampler
           /\ swr' = swr ]_vars

\* Witness of C5: take has been called on an instance never pushed to.
C5_Witness ==
    op = "take" /\ npush = 0 /\ ret = 0 /\ resampler.tmp_frame = NULL

\* C6 - Push precondition: a push (of a chunk or of the flush sentinel)
\* made while the staging buffer exists and offset < its length returns 0
\* and changes nothing: the instance (counters, offsets, flush, offset,
\* both buffers) and the kernel are as before, and no library call is made.
C6_PushPrecondition ==
    [][ (Unconsumed /\ op' = "push")
        => /\ ret' = 0
           /\ calls' = <<>>
           /\ resampler' = resampler
           /\ swr' = swr ]_vars

\* Witness of C6: a flush was pushed on an unconsumed staging buffer and
\* answered 0.
C6_Witness ==
    op = "push" /\ pushed = NULL /\ ret = 0 /\ Unconsumed

\* C10 - Error propagation: after a push in which a kernel call (silence
\* injection, output discard, capacity query, conversion) reported a
\* negative result, the push returned that very result; after a push in
\* which the staging buffer could not be allocated, the push returned a
\* negative value; so a push with a failed step returns neither 0 nor 1.
C10_ErrorPropagation ==
    op = "push" =>
        \A i \in DOMAIN calls :
            /\ (calls[i].f \in KernelCalls /\ calls[i].res < 0)
                   => ret = calls[i].res
            /\ (calls[i].f = "alloc_frame" /\ calls[i].res = 0)
                   => ret < 0

\* Witness of C10: a push whose conversion call failed.
C10_Witness ==
    /\ op = "push"
    /\ calls # <<>>
    /\ calls[Len(calls)].f = "swr_convert_frame"
    /\ calls[Len(calls)].res < 0
    /\ ret = calls[Len(calls)].res

\* The samples of the chunk of n samples the caller pushes next.
FreshSamples(n) == [i \in 1..n |-> next_sample + i - 1]

\* A chunk is pushed on an instance that accepts it.
ChunkStep ==
    /\ op' = "push"
    /\ pushed' # NULL
    /\ ~Unconsumed

\* The pts expectation a chunk of the given pts is compared with: the
\* instance's expected_source_pts, which a push made while source_samples
\* is 0 first sets to the chunk's own pts.
Expected(pts) ==
    IF resampler.source_samples = 0 THEN pts
    ELSE resampler.expected_source_pts

SameRate == resampler.target_sample_rate = resampler.source_sample_rate

DriftCalls == {"swr_inject_silence", "swr_drop_output"}

StagedLength(r) ==
    IF r.tmp_frame = NULL THEN 0 ELSE r.tmp_frame.nb_samples

\* The samples converted and not yet handed out or copied to the output
\* frame.
Staged(r) ==
    IF r.tmp_frame = NULL THEN <<>>
    ELSE SubSeq(r.tmp_frame.data, r.offset + 1, r.tmp_frame.nb_samples)

\* C2 - Fixed framing: in fixed-size mode, as long as no flush has been
\* pushed, every frame take hands out has exactly F samples, and once take
\* reports no output yet, the frames handed out are exactly the k full
\* frames the converted samples contain (k * F samples, k the number of
\* converted samples divided by F, rounded down).
C2_FixedFraming ==
    (resampler.target_frame_samples > 0 /\ ~ever_flushed)
    => /\ IsFrame(frame)
            => frame.nb_samples = resampler.target_frame_samples
       /\ (op = "take" /\ ret = 0 /\ resampler.tmp_frame # NULL)
            => Len(out_data) =
                   resampler.target_frame_samples
                   * (resampler.output_samples
                        \div resampler.target_frame_samples)

\* C3 - Timestamp monotonicity: every frame take hands out after another
\* one has the pts of the previous frame plus the previous frame's sample
\* count (hence a pts that is not smaller).
C3_TimestampMonotonicity ==
    [][ (op' = "take" /\ IsFrame(frame') /\ last_out # NoFrame)
        => frame'.pts = last_out.pts + last_out.nb_samples ]_vars

\* C4 - Passthrough round-trip: in passthrough mode at equal rates (the
\* kernel stub is then the identity), with contiguous chunk timestamps and
\* no failing kernel call, the samples of the frames handed out, followed
\* by the samples still staged, are the samples of the consumed chunks, in
\* order.
C4_PassthroughRoundTrip ==
    (resampler.target_frame_samples = 0 /\ SameRate /\ contiguous /\ ~kfail)
    => out_data \o Staged(resampler) = in_data

\* C9 - A failed push leaves the state unchanged: a push that returns an
\* error because the capacity query, the allocation of the staging buffer
\* or the conversion failed leaves source_samples, expected_source_pts,
\* the timestamp offsets, output_samples, flush, offset and the length of
\* the staging buffer as they were.
C9_FailedPushUnchanged ==
    [][ ( /\ op' = "push"
          /\ ret' < 0
          /\ calls' # <<>>
          /\ calls'[Len(calls')].f \in
                 {"swr_get_out_samples", "alloc_frame", "swr_convert_frame"} )
        => /\ resampler'.source_samples = resampler.source_samples
           /\ resampler'.expected_source_pts = resampler.expected_source_pts
           /\ resampler'.input_pts_offset = resampler.input_pts_offset
           /\ resampler'.output_pts_offset = resampler.output_pts_offset
           /\ resampler'.output_samples = resampler.output_samples
           /\ resampler'.flush = resampler.flush
           /\ resampler'.offset = resampler.offset
           /\ StagedLength(resampler') = StagedLength(resampler) ]_vars

\* C11 - A failed correction leaves the state unchanged: when the silence
\* injection or the output discard of a chunk push reports a negative
\* result, the push returns that result, the instance (source_samples,
\* expected_source_pts, output_samples, offset, flush, the staging buffer
\* and every other field) is as before the push, and the failed call is the
\* only library call of the push: neither the capacity query nor the
\* conversion is made.
C11_FailedCorrectionUnchanged ==
    [][ ( /\ op' = "push"
          /\ calls' # <<>>
          /\ calls'[1].f \in DriftCalls
          /\ calls'[1].res < 0 )
        => /\ ret' = calls'[1].res
           /\ resampler' = resampler
           /\ Len(calls') = 1 ]_vars

\* Witness of C11: the discard of an overlapping chunk failed.
C11_Witness ==
    /\ op = "push" /\ ret < 0
    /\ pushed # NULL /\ pushed # NoFrame
    /\ pushed.nb_samples = 3
    /\ calls = <<[f |-> "swr_drop_output", arg |-> 1, res |-> ret]>>
    /\ resampler.source_samples = 3
    /\ resampler.expected_source_pts = 3

\* C12 - Flush without input is an error: a push of the flush sentinel made
\* while there is no staging buffer returns an error (a negative value)
\* that is none of the results a failing kernel call reports; it returns
\* neither consumed (1) nor not consumed (0).
C12_FlushWithoutStaging ==
    [][ (op' = "push" /\ pushed' = NULL /\ resampler.tmp_frame = NULL)
        => (ret' < 0 /\ ret' \notin KernelErrors) ]_vars

\* The samples the instance holds for the caller: those copied to the
\* output frame followed by those still staged.
Buffered(r) ==
    (IF r.output_frame = NULL THEN <<>> ELSE r.output_frame.data)
    \o Staged(r)

\* C13 - take swallows no error: a take returns 1 only when it has stored a
\* valid frame, and a take that stores no valid frame (one whose clone
\* could not be created included) discards none of the buffered samples.
C13_TakeSwallowsNoError ==
    [][ op' = "take"
        => /\ ret' = 1 => IsFrame(frame')
           /\ ~IsFrame(frame') => Buffered(resampler') = Buffered(resampler)
      ]_vars

\* C14 - Copy-on-write: the samples the caller reads through a frame it
\* was handed and still holds are the samples the frame had when it was
\* handed out, whatever pushes and takes were made since and whether or
\* not the caller released other frames: neither the conversion of a push
\* nor the copy of a take writes into a buffer a held frame references.
\* (Length and pts live in the clone's own frame structure.)
C14_CopyOnWrite ==
    \A h \in held.tmp \cup held.out : h.data = h.frame.data

\* Witness of C14: in passthrough mode the caller still holds the frame
\* with the samples 1 2 3 while a later push has converted the samples
\* 4 5 6 into the staging frame, which no longer shares the held buffer.
C14_Witness ==
    /\ op = "push" /\ ret = 1
    /\ resampler.target_frame_samples = 0
    /\ resampler.tmp_frame.data = <<4, 5, 6>>
    /\ resampler.tmp_frame_capacity = 3
    /\ \E h \in held.tmp :
           ~h.attached /\ h.data = <<1, 2, 3>> /\ h.frame.data = <<1, 2, 3>>

\* C15 - The protocol cannot get stuck: whenever take has returned 0 (no
\* output yet), the staging buffer is absent or fully consumed (offset
\* equals its length), and the push made next is not answered 0 (not
\* consumed).
C15_ProtocolNotStuck ==
    /\ [](op = "take" /\ ret = 0
            => \/ resampler.tmp_frame = NULL
               \/ resampler.offset = resampler.tmp_frame.nb_samples)
    /\ [][ (op = "take" /\ ret = 0 /\ op' = "push") => ret' # 0 ]_vars

\* Witness of C15: in fixed-size mode take reports no output yet after the
\* three staged samples were copied and handed out.
C15_Witness ==
    /\ op = "take" /\ ret = 0
    /\ resampler.target_frame_samples > 0
    /\ resampler.tmp_frame # NULL
    /\ resampler.tmp_frame.nb_samples = 3
    /\ resampler.offset = 3
    /\ out_data = <<1, 2, 3>>

\* C16 - Failed allocation of the output frame: a take that returns a
\* negative value stores no frame and leaves every field of the instance
\* but output_frame (now NULL) as it was - the staging buffer, offset, the
\* counters and flush included; the output frame it lost held no sample,
\* and the take made next with no failure returns what the failed take
\* would have returned without the failure, with the same frame.
C16_OutputAllocFailure ==
    [][ (op' = "take" /\ ret' < 0)
        => /\ frame' = NoFrame
           /\ resampler' = [resampler EXCEPT !.output_frame = NULL]
           /\ \/ resampler.output_frame = NULL
              \/ resampler.output_frame.nb_samples = 0
           /\ TakeFrame(resampler', "none").ret
                  = TakeFrame(resampler, "none").ret
           /\ TakeFrame(resampler', "none").frame
                  = TakeFrame(resampler, "none").frame ]_vars

\* Witness of C16: the allocation of the output frame failed in a take made
\* while three converted samples wait in the staging buffer.
C16_Witness ==
    /\ op = "take" /\ ret < 0
    /\ resampler.target_frame_samples > 0
    /\ resampler.output_frame = NULL
    /\ Staged(resampler) = <<1, 2, 3>>

\* C17 - The timestamp offsets are set exactly once: before any chunk was
\* pushed both offsets are 0; from the first chunk push on,
\* input_pts_offset is the pts of that first chunk and output_pts_offset is
\* that pts times target rate over source rate (truncated toward zero),
\* whatever chunks are pushed later.
C17_OffsetsSetOnce ==
    IF first_chunk = NULL
    THEN /\ resampler.input_pts_offset = 0
         /\ resampler.output_pts_offset = 0
    ELSE /\ resampler.input_pts_offset = first_chunk.pts
         /\ resampler.output_pts_offset =
                CDiv(first_chunk.pts * resampler.target_sample_rate,
                     resampler.source_sample_rate)

\* A chunk is pushed, after the first one, on an instance that accepts it.
LaterChunkStep == ChunkStep /\ first_chunk # NULL

\* C18 - expected_source_pts never decreases (as stated): once a first
\* chunk has been pushed, expected_source_pts after the push of a chunk is
\* never smaller than it was before that push, whatever the chunk's pts.
C18_ExpectedPtsMonotonic ==
    [][ LaterChunkStep
        => resampler'.expected_source_pts >= resampler.expected_source_pts
      ]_vars

\* C18 as amended - a chunk push that gets past its gap or overlap
\* correction leaves expected_source_pts at the chunk's pts plus its
\* length, and one that does not leaves it as it was; so
\* expected_source_pts does not decrease in the push of a chunk that ends
\* at or after the expectation (pts + length >= expected_source_pts).
C18_ExpectedPtsFollowsChunk ==
    [][ LaterChunkStep
        => LET end == pushed'.pts + pushed'.nb_samples
               past == \E i \in DOMAIN calls' :
                           calls'[i].f = "swr_get_out_samples"
           IN  /\ resampler'.expected_source_pts =
                      IF past THEN end ELSE resampler.expected_source_pts
               /\ end >= resampler.expected_source_pts
                  => resampler'.expected_source_pts
                         >= resampler.expected_source_pts ]_vars

\* Witness of C18: chunk A (pts 0, 3 samples) then chunk B (pts 2, 3
\* samples), which overlaps A by one sample and ends after it: the
\* expectation moves from 3 to 5.
C18_Witness ==
    /\ op = "push" /\ ret = 1
    /\ first_chunk = [pts |-> 0]
    /\ pushed = [pts |-> 2, nb_samples |-> 3]
    /\ in_data = <<1, 2, 3, 4, 5, 6>>
    /\ resampler.expected_source_pts = 5

\* C19 - No empty frame: every frame take hands out has at least one
\* sample, in passthrough and in fixed-size mode, during a flush or not.
C19_NoEmptyFrame ==
    IsFrame(frame) => frame.nb_samples > 0

\* C20 - A short frame only after a flush: in fixed-size mode, a frame of
\* fewer than target_frame_samples samples is handed out only when the
\* last push that returned 1 was the push of the flush sentinel.
C20_ShortFrameOnlyAfterFlush ==
    ( /\ resampler.target_frame_samples > 0
      /\ IsFrame(frame)
      /\ frame.nb_samples < resampler.target_frame_samples )
    => last_consumed = "flush"

\* The number of samples copied to the output frame and not handed out.
OutputLength(r) ==
    IF r.output_frame = NULL THEN 0 ELSE r.output_frame.nb_samples

\* C21 - Sample conservation: in every state, the samples of the frames
\* handed out so far, plus the samples in the output frame, plus the
\* staged samples not yet consumed (staging length minus offset), are as
\* many as output_samples, the samples all successful conversions wrote.
C21_SampleConservation ==
    Len(out_data) + OutputLength(resampler)
        + (StagedLength(resampler)
             - (IF resampler.tmp_frame = NULL THEN 0 ELSE resampler.offset))
    = resampler.output_samples

\* C22 - flush stays set until the drain is complete: a take made while
\* flush is set does not clear it as long as staged samples remain
\* undelivered after the take; the take that hands out a frame and leaves
\* no staged sample undelivered clears it; and whenever take has reported
\* no output yet, flush is 0.
C22_FlushUntilDrained ==
    /\ [][ (op' = "take" /\ resampler.flush = 1)
            => /\ PushBlocked(resampler') => resampler'.flush = 1
               /\ (IsFrame(frame') /\ ~PushBlocked(resampler'))
                      => resampler'.flush = 0 ]_vars
    /\ [](op = "take" /\ ret = 0 => resampler.flush = 0)

\* C23 - offset never exceeds the staging length: whenever a staging frame
\* exists, offset <= its nb_samples, after any push or take, failed ones
\* included.
C23_OffsetWithinStaging ==
    resampler.tmp_frame # NULL
    => resampler.offset <= resampler.tmp_frame.nb_samples

\* Witness of C23: in fixed-size mode a take has consumed three of four
\* staged samples.
C23_Witness ==
    /\ op = "take"
    /\ resampler.tmp_frame # NULL
    /\ resampler.tmp_frame.nb_samples = 4
    /\ resampler.offset = 3

\* C24 - The output frame is never left full: in fixed-size mode, after
\* every push and take, whatever it returned, the output frame, if there
\* is one, holds fewer than target_frame_samples samples.
C24_OutputBelowFrameSize ==
    (resampler.target_frame_samples > 0 /\ resampler.output_frame # NULL)
    => resampler.output_frame.nb_samples < resampler.target_frame_samples

\* Witness of C24: after full frames were handed out, a take has left one
\* sample in the output frame and reported no output yet.
C24_Witness ==
    /\ op = "take" /\ ret = 0
    /\ resampler.target_frame_samples = 3
    /\ resampler.output_frame # NULL
    /\ resampler.output_frame.nb_samples = 1
    /\ Len(out_data) >= 3

\* The push reached the capacity query, past the drift correction.
PastCorrection ==
    \E i \in DOMAIN calls' : calls'[i].f = "swr_get_out_samples"

C26_FirstChunk ==
    [][ (ChunkStep /\ first_chunk = NULL)
        => LET pts == pushed'.pts
               tr  == resampler.target_sample_rate
               sr  == resampler.source_sample_rate
           IN  /\ resampler'.input_pts_offset = pts
               /\ resampler'.output_pts_offset =
                      IF pts >= 0 THEN (pts * tr) \div sr
                      ELSE 0 - (((0 - pts) * tr) \div sr)
               /\ \A i \in DOMAIN calls' : calls'[i].f \notin DriftCalls
               /\ resampler'.source_samples = pushed'.nb_samples
               /\ resampler'.expected_source_pts = pts + pushed'.nb_samples
      ]_vars

\* Witness of C26: the first chunk has pts -1 and the rates are 1:2, so
\* output_pts_offset is -1/2 truncated toward zero, 0.
C26_Witness ==
    /\ op = "push" /\ ret = 1 /\ npush = 1
    /\ first_chunk = [pts |-> 0 - 1]
    /\ pushed = [pts |-> 0 - 1, nb_samples |-> 3]
    /\ resampler.source_sample_rate = 2
    /\ resampler.input_pts_offset = 0 - 1
    /\ resampler.output_pts_offset = 0

\* C27 - After a consumed push: when push returns 1, offset is 0, the
\* staging frame holds the samples the conversion wrote, its pts is
\* output_pts_offset plus the samples written by all earlier conversions
\* (output_samples before the push), and output_samples has grown by the
\* staging frame's length.
C27_AfterConsumedPush ==
    [][ (op' = "push" /\ ret' = 1)
        => /\ resampler'.offset = 0
           /\ resampler'.tmp_frame # NULL
           /\ resampler'.tmp_frame.nb_samples
                  = Len(resampler'.tmp_frame.data)
           /\ resampler'.tmp_frame.pts =
                  resampler'.output_pts_offset + resampler.output_samples
           /\ resampler'.output_samples =
                  resampler.output_samples
                  + resampler'.tmp_frame.nb_samples ]_vars

\* Witness of C27: the second consumed push wrote four samples after three.
C27_Witness ==
    /\ op = "push" /\ ret = 1
    /\ resampler.offset = 0
    /\ resampler.tmp_frame.nb_samples = 4
    /\ resampler.tmp_frame.pts = 3
    /\ resampler.output_pts_offset = 0
    /\ resampler.output_samples = 7

\* The capacity queries of push.
CapacityCalls == {"swr_get_out_samples", "swr_get_delay"}

\* The capacity requirement of the push that made the calls cs: the result
\* of swr_get_out_samples, or that of swr_get_delay plus 3 on a flush.
Requirement(cs) ==
    LET i == CHOOSE i \in DOMAIN cs : cs[i].f \in CapacityCalls
    IN  IF cs[i].f = "swr_get_delay" THEN cs[i].res + 3 ELSE cs[i].res

\* C28 - Staging allocation rule: a push that obtained a capacity
\* requirement (not negative) calls alloc_frame if and only if the staging
\* frame is absent, shared with a frame handed out, or of a capacity below
\* the requirement; it asks for exactly the requirement and a successful
\* allocation leaves a staging frame of that capacity that nobody shares;
\* otherwise the staging frame and its capacity are kept.  The conversion is
\* only called with a capacity of at least the requirement, and the staging
\* frame's length never exceeds its capacity.
C28_StagingAllocationRule ==
    /\ [](resampler.tmp_frame # NULL
            => resampler.tmp_frame.nb_samples
                   <= resampler.tmp_frame_capacity)
    /\ [][ (/\ op' = "push"
            /\ \E i \in DOMAIN calls' : calls'[i].f \in CapacityCalls
            /\ Requirement(calls') >= 0)
           => LET req       == Requirement(calls')
                  allocs    == {i \in DOMAIN calls' :
                                    calls'[i].f = "alloc_frame"}
                  converted == \E i \in DOMAIN calls' :
                                    calls'[i].f = "swr_convert_frame"
              IN  /\ (allocs # {})
                         <=> \/ resampler.tmp_frame = NULL
                             \/ resampler.tmp_frame.shared
                             \/ resampler.tmp_frame_capacity < req
                  /\ Cardinality(allocs) <= 1
                  /\ \A i \in allocs :
                        /\ calls'[i].arg = req
                        /\ calls'[i].res = 1
                           => /\ resampler'.tmp_frame_capacity = req
                              /\ resampler'.tmp_frame # NULL
                              /\ ~resampler'.tmp_frame.shared
                        /\ calls'[i].res = 0
                           => (~converted /\ ret' < 0)
                  /\ allocs = {}
                         => /\ resampler'.tmp_frame_capacity
                                   = resampler.tmp_frame_capacity
                            /\ resampler'.tmp_frame # NULL
                            /\ converted
                  /\ converted => resampler'.tmp_frame_capacity >= req
         ]_vars

\* Witness of C28: a second push needed exactly the capacity the staging
\* frame already had, and reused the frame without allocating.
C28_Witness ==
    /\ op = "push" /\ ret = 1 /\ npush = 2
    /\ \A i \in DOMAIN calls : calls[i].f # "alloc_frame"
    /\ \E i \in DOMAIN calls :
          /\ calls[i].f = "swr_get_out_samples"
          /\ calls[i].res = resampler.tmp_frame_capacity
    /\ resampler.tmp_frame.nb_samples = 3
    /\ resampler.tmp_frame_capacity = 3

\* C29 - Passthrough take: with no fixed frame size, a take made while the
\* staging frame holds samples returns 1 with a copy of the whole staging
\* content carrying the staging frame's pts, clears flush and leaves the
\* staging frame consumed (the next push is not rejected and a take made
\* right away returns 0); with no staged sample it returns 0 and hands out
\* nothing.
C29_PassthroughTake ==
    [][ (op' = "take" /\ resampler.target_frame_samples = 0)
        => IF StagedLength(resampler) > 0
           THEN /\ ret' = 1
                /\ frame' = av_frame_clone(resampler.tmp_frame)
                /\ resampler'.flush = 0
                /\ ~PushBlocked(resampler')
                /\ TakeFrame(resampler', "none").ret = 0
           ELSE /\ ret' = 0
                /\ frame' = NoFrame ]_vars

\* C30 - Fixed-size copy step: a fixed-size take that gets to the copy
\* (there is a staging frame and the output frame could be allocated) moves
\* n = min(staged length - offset, frame size - output length) samples,
\* staging[offset .. offset + n), to the end of the output frame and
\* advances offset and the output length by n; a copy into an empty output
\* frame stamps it with the staging pts plus the offset before the copy, a
\* copy into a started one keeps its pts.  The output frame is read where
\* the take left it: in the instance when the take returned 0, in the frame
\* handed out otherwise.
C30_FixedSizeCopyStep ==
    [][ (/\ op' = "take" /\ ret' >= 0
         /\ resampler.target_frame_samples > 0
         /\ resampler.tmp_frame # NULL)
        => LET pre   == IF resampler.output_frame = NULL THEN <<>>
                        ELSE resampler.output_frame.data
               n     == Min(resampler.tmp_frame.nb_samples - resampler.offset,
                            resampler.target_frame_samples - Len(pre))
               moved == SubSeq(resampler.tmp_frame.data,
                               resampler.offset + 1, resampler.offset + n)
               out   == IF ret' = 0 THEN resampler'.output_frame ELSE frame'
           IN  /\ n >= 0
               /\ resampler'.offset = resampler.offset + n
               /\ resampler'.tmp_frame.data = resampler.tmp_frame.data
               /\ (ret' = 0 \/ IsFrame(frame'))
                  => /\ out.data = pre \o moved
                     /\ out.nb_samples = Len(pre) + n
                     /\ n > 0
                        => out.pts = IF Len(pre) = 0
                                     THEN resampler.tmp_frame.pts
                                              + resampler.offset
                                     ELSE resampler.output_frame.pts
      ]_vars

\* Witness of C30: the staging frame holds four samples with pts 3, three
\* were handed out, and a take has copied the fourth into the empty output
\* frame, stamped 3 + 3.
C30_Witness ==
    /\ op = "take" /\ ret = 0
    /\ resampler.tmp_frame # NULL
    /\ resampler.tmp_frame.nb_samples = 4
    /\ resampler.tmp_frame.pts = 3
    /\ resampler.offset = 4
    /\ resampler.output_frame # NULL
    /\ resampler.output_frame.data = <<6>>
    /\ resampler.output_frame.pts = 6

\* The place of a call in a push: drift correction, capacity query,
\* allocation of the staging frame, conversion.
CallRank(f) ==
    IF f \in DriftCalls THEN 1
    ELSE IF f \in CapacityCalls THEN 2
    ELSE IF f = "alloc_frame" THEN 3
    ELSE 4

\* The logged call failed: a negative kernel result, no frame from
\* alloc_frame.
CallFailed(c) ==
    IF c.f = "alloc_frame" THEN c.res = 0 ELSE c.res < 0

\* C31 - Order of the calls of one push: the calls are made in the order
\* drift correction, capacity query, allocation, conversion, each at most
\* once (so never both an injection and a discard); the conversion is only
\* called after a capacity query, and a consumed push ends with the
\* conversion, after swr_get_out_samples for a chunk and swr_get_delay for
\* a flush; a call that failed is the last call of the push, which then
\* returns a negative value (so the conversion is never called after a
\* failed correction, capacity query or allocation); and a flush push makes
\* no injection and no discard.
C31_KernelCallOrder ==
    [][ op' = "push"
        => /\ \A i, j \in DOMAIN calls' :
                 i < j => CallRank(calls'[i].f) < CallRank(calls'[j].f)
           /\ \A i \in DOMAIN calls' :
                 CallFailed(calls'[i]) => (i = Len(calls') /\ ret' < 0)
           /\ (\E i \in DOMAIN calls' : calls'[i].f = "swr_convert_frame")
                 => \E i \in DOMAIN calls' : calls'[i].f \in CapacityCalls
           /\ ret' = 1
                 => /\ calls'[Len(calls')].f = "swr_convert_frame"
                    /\ \E i \in DOMAIN calls' :
                           calls'[i].f = IF pushed' = NULL
                                         THEN "swr_get_delay"
                                         ELSE "swr_get_out_samples"
           /\ pushed' = NULL
                 => \A i \in DOMAIN calls' : calls'[i].f \notin DriftCalls
      ]_vars

\* Witness of C31: a chunk push made a discard, the capacity query, an
\* allocation and the conversion, in this order.
C31_Witness ==
    /\ op = "push" /\ ret = 1 /\ pushed # NULL
    /\ Len(calls) = 4
    /\ calls[1].f = "swr_drop_output"
    /\ calls[2].f = "swr_get_out_samples"
    /\ calls[3].f = "alloc_frame"
    /\ calls[4].f = "swr_convert_frame"

\* C32 - No correction without drift: as long as every chunk the caller
\* pushed started where the last consumed chunk ended (zero-length chunks
\* included), no push calls swr_inject_silence or swr_drop_output, and
\* after each consumed push source_samples is the sum of the lengths of the
\* chunks consumed.
C32_NoCorrectionWithoutDrift ==
    /\ []((contiguous /\ op = "push" /\ ret = 1)
            => resampler.source_samples = Len(in_data))
    /\ [][ (op' = "push" /\ contiguous')
            => \A i \in DOMAIN calls' : calls'[i].f \notin DriftCalls ]_vars

OutputData(r) == IF r.output_frame = NULL THEN <<>> ELSE r.output_frame.data

\* The staged samples not yet copied to the output frame.
StagedRest(r) ==
    IF r.tmp_frame = NULL THEN <<>>
    ELSE SubSeq(r.tmp_frame.data, r.offset + 1, r.tmp_frame.nb_samples)

\* C34 - Fixed-size mode preserves order and content: in fixed-size mode
\* the samples of the frames handed out so far, followed by those of the
\* output frame and by the staged samples from offset on, are the samples
\* written by the successful conversions, in order.
C34_FixedSizeOrderAndContent ==
    resampler.target_frame_samples > 0
    => out_data \o OutputData(resampler) \o StagedRest(resampler) = written

\* The references the frame pointer f of the instance accounts for.
Refs(f) == IF f = NULL THEN 0 ELSE 1

\* C35 - Buffer ownership and release: while the instance exists it owns
\* exactly the staging frame and the output frame its two pointers name, so
\* at most one of each, and at no moment of a call more than one of
\* either (a frame that is replaced is released before its replacement is
\* allocated); after ffw_audio_resampler_free, and after a construction that
\* failed, the instance owns no frame, no context and no structure.
C35_BufferOwnership ==
    /\ [](owned.self = 1
            => /\ owned.tmp = Refs(resampler.tmp_frame)
               /\ owned.out = Refs(resampler.output_frame)
               /\ owned.ctx = 1)
    /\ [](owned.peak <= 1)
    /\ [](op \in {"free", "new_failed"}
            => /\ owned.self = 0 /\ owned.ctx = 0
               /\ owned.tmp = 0 /\ owned.out = 0)

\* Witness of C35: an instance that owned a staging frame and an output
\* frame has been destroyed; the structure, the context and both frames
\* were released.
C35_Witness ==
    /\ op = "free"
    /\ owned.freed = 4
    /\ owned.self = 0 /\ owned.ctx = 0 /\ owned.tmp = 0 /\ owned.out = 0

\* Witness of the failed construction: swr_init failed and the structure
\* and the context were released.
C35_NewFailed ==
    op = "new_failed" /\ owned.freed = 2 /\ owned.self = 0 /\ owned.ctx = 0

\* The configuration of the instance r.
Config(r) ==
    <<r.target_sample_rate, r.target_frame_samples, r.source_sample_rate>>

\* The counters and offsets of the drift tracker and of the output
\* timeline.
Counters(r) ==
    <<r.source_samples, r.expected_source_pts, r.output_samples,
      r.input_pts_offset, r.output_pts_offset>>

\* C36 - Frame effects: a take changes none of source_samples,
\* expected_source_pts, output_samples, input_pts_offset, output_pts_offset
\* and the configuration, makes no kernel call and leaves the kernel as it
\* was; a push leaves the output frame (samples, length, pts) as it was and
\* changes no configuration field.
C36_FrameEffects ==
    /\ [][ op' = "take"
            => /\ Counters(resampler') = Counters(resampler)
               /\ Config(resampler') = Config(resampler)
               /\ calls' = <<>>
               /\ swr' = swr ]_vars
    /\ [][ op' = "push"
            => /\ resampler'.output_frame = resampler.output_frame
               /\ Config(resampler') = Config(resampler) ]_vars

\* Witness of C36: a consumed push has left alone an output frame that
\* holds one sample of an earlier chunk.
C36_Witness ==
    /\ op = "push" /\ ret = 1 /\ npush = 2
    /\ resampler.output_frame # NULL
    /\ resampler.output_frame.nb_samples = 1
    /\ resampler.output_frame.data # <<>>
    /\ resampler.output_frame.pts # NOPTS

C38_FlushPush ==
    [][ (op' = "push" /\ pushed' = NULL /\ ~Unconsumed)
        => /\ resampler'.flush = 1
           /\ calls' # <<>>
           /\ calls'[1] = [f |-> "swr_get_delay",
                           arg |-> resampler.target_sample_rate,
                           res |-> SwrGetDelay(swr)]
           /\ LET req    == calls'[1].res + 3
                  allocs == {i \in DOMAIN calls' :
                                 calls'[i].f = "alloc_frame"}
              IN  /\ (allocs # {})
                         <=> \/ resampler.tmp_frame = NULL
                             \/ resampler.tmp_frame.shared
                             \/ resampler.tmp_frame_capacity < req
                  /\ \A i \in allocs : calls'[i].arg = req
                  /\ ret' = 1 => resampler'.tmp_frame_capacity >= req
           /\ \A i \in DOMAIN calls' :
                 calls'[i].f = "swr_convert_frame" => calls'[i].arg = 0 - 1
           /\ ret' = 1
                 => /\ calls'[Len(calls')].f = "swr_convert_frame"
                    /\ in_data' = in_data
           /\ resampler'.source_samples = resampler.source_samples
      ]_vars

\* Witness of C38: at rates 1:2 a chunk left a staging frame of capacity
\* below 3; the flush asked for the delay, 0, allocated a frame of 0 + 3 and
\* converted with no input.
C38_Witness ==
    /\ op = "push" /\ ret = 1 /\ pushed = NULL
    /\ first_chunk # NULL
    /\ resampler.flush = 1
    /\ Len(calls) = 3
    /\ calls[1].f = "swr_get_delay" /\ calls[1].res = 0
    /\ calls[2] = [f |-> "alloc_frame", arg |-> 3, res |-> 1]
    /\ calls[3] = [f |-> "swr_convert_frame", arg |-> 0 - 1, res |-> 0]
    /\ resampler.tmp_frame_capacity = 3
    /\ resampler.source_sample_rate = 2

==========================================================================
